---- MODULE Spec2Model ----
(***************************************************************************)
(* Model of import_blueprints.py: main() as a sequential program.          *)
(*                                                                         *)
(* Spec      main() from its first statement (lines 111-236), run on the   *)
(*           command line and directory drawn in Init.                     *)
(* LoopSpec  the per-file body of main() (lines 160-230) followed by the   *)
(*           completion line 236, started at the head of the for loop.     *)
(*                                                                         *)
(* JSON text is a record [kind, doc]: kind = "json" for text json.loads    *)
(* accepts (doc is the parsed value), kind = "garbage" for text on which   *)
(* json.loads raises JSONDecodeError.  Strings the program lower-cases or  *)
(* searches are sequences of one-character strings.                        *)
(***************************************************************************)
EXTENDS Integers, Sequences, FiniteSets, TLC

VARIABLES
    pc,             \* position in main()
    error,          \* the uncaught exception that ended the run, if any
    cluster_ip,     \* global cluster_ip
    username,       \* global username
    password,       \* global password
    project,        \* global project
    dict_variables, \* global dict_variables
    files,          \* the directory: <<[path, text]>> in glob order
    listing,        \* the body the control plane answers projects/list with
    project_found,  \* local project_found ("unbound" until assigned)
    project_uuid,   \* local project_uuid ("unbound" until assigned)
    idx,            \* index of the for loop over blueprint_list
    raw_json,       \* local raw_json
    json_result,    \* local json_result
    stdout,         \* the lines printed so far
    uploads,        \* requests sent to blueprints/import_json
    queries,        \* requests sent to projects/list
    reads           \* files opened

vars == <<pc, error, cluster_ip, username, password, project, dict_variables,
          files, listing, project_found, project_uuid, idx, raw_json,
          json_result, stdout, uploads, queries, reads>>

inputs == <<cluster_ip, username, password, project, dict_variables, files, listing>>

(***************************************************************************)
(* Bound                                                                   *)
(***************************************************************************)
MaxFiles == 2

(***************************************************************************)
(* Character strings                                                       *)
(***************************************************************************)
UpperChars == <<"A", "B", "C", "D", "E", "F", "G", "H", "I", "J", "K", "L", "M",
                "N", "O", "P", "Q", "R", "S", "T", "U", "V", "W", "X", "Y", "Z">>
LowerChars == <<"a", "b", "c", "d", "e", "f", "g", "h", "i", "j", "k", "l", "m",
                "n", "o", "p", "q", "r", "s", "t", "u", "v", "w", "x", "y", "z">>

LowerChar(c) ==
    IF \E i \in 1..Len(UpperChars) : UpperChars[i] = c
    THEN LowerChars[CHOOSE i \in 1..Len(UpperChars) : UpperChars[i] = c]
    ELSE c

\* str.lower()
Lower(s) == [i \in 1..Len(s) |-> LowerChar(s[i])]

\* sub in s
Contains(s, sub) ==
    \E i \in 1..(Len(s) - Len(sub) + 1) : SubSeq(s, i, i + Len(sub) - 1) = sub

K_pe_vip == <<"p", "e", "_", "v", "i", "p">>
K_ctr_uuid == <<"c", "t", "r", "_", "u", "u", "i", "d">>
K_clstr_name == <<"c", "l", "s", "t", "r", "_", "n", "a", "m", "e">>
K_ctr_name == <<"c", "t", "r", "_", "n", "a", "m", "e">>
K_era_id == <<"e", "r", "a", "_", "i", "d">>
K_network_name == <<"n", "e", "t", "w", "o", "r", "k", "_", "n", "a", "m", "e">>
K_network_vlan == <<"n", "e", "t", "w", "o", "r", "k", "_", "v", "l", "a", "n">>

\* the keys of dict_variables
VariableKeys ==
    {K_pe_vip, K_ctr_uuid, K_clstr_name, K_ctr_name, K_era_id, K_network_name,
     K_network_vlan}

EraServerDeployment ==
    <<"E", "r", "a", "S", "e", "r", "v", "e", "r", "D", "e", "p", "l", "o", "y",
      "m", "e", "n", "t">>

(***************************************************************************)
(* JSON                                                                    *)
(***************************************************************************)
Garbage == [kind |-> "garbage"]

\* json.loads(t) returns (TRUE) or raises JSONDecodeError (FALSE)
Parseable(t) == t.kind = "json"

\* json.loads(t), for text it accepts
Loads(t) == t.doc

\* json.dumps(d)
Dumps(d) == [kind |-> "json", doc |-> d]

\* d.pop(k) for a key the dict holds
Pop(d, k) == [j \in (DOMAIN d) \ {k} |-> d[j]]

\* d[k] = v
Put(d, k, v) == [j \in (DOMAIN d) \cup {k} |-> IF j = k THEN v ELSE d[j]]

(***************************************************************************)
(* get_options                                                             *)
(***************************************************************************)
\* an option that was not given, or given empty, is falsy
Truthy(arg) == arg # ""

GetProject(arg) == IF Truthy(arg) THEN arg ELSE "none"

GetDictVariables(args) ==
    [k \in VariableKeys |-> IF Truthy(args[k]) THEN args[k] ELSE "none"]

(***************************************************************************)
(* str + ... + str: the operand types of a concatenation.  Python raises   *)
(* TypeError unless every operand is a str.                                *)
(***************************************************************************)
ConcatOk(types) == \A i \in 1..Len(types) : types[i] = "str"

\* line 157: len(blueprint_list) + ' JSON files found. Starting import ...\n'
AnnounceOperands == <<"int", "str">>

\* line 227: blueprint + ' : Successfully imported in ' + difference + ' seconds.'
SuccessOperands == <<"str", "str", "float", "str">>

\* line 233 with the file count in place of the directory, as on line 157
NothingOperands_Count == <<"str", "int", "str">>

\* line 233: '\nNo JSON files found in' + directory + ' ... nothing to import!'
NothingOperands == <<"str", "str", "str">>

NoError == [type |-> "none", line |-> 0]

Line(kind, file, text) == [kind |-> kind, file |-> file, text |-> text]

(***************************************************************************)
(* The inputs of a run: command line, directory, control-plane answers     *)
(***************************************************************************)
Path(i) == "bp" \o ToString(i) \o ".json"

Name_Era == EraServerDeployment \o <<"-", "v", "1">>
Name_eraLower == Lower(EraServerDeployment)
Name_WebApp == <<"W", "e", "b", "A", "p", "p">>

Var_PE_VIP == <<"P", "E", "_", "V", "I", "P">>
Var_Era_Id == <<"E", "r", "a", "_", "I", "d">>
Var_DB_NAME == <<"D", "B", "_", "N", "A", "M", "E">>

\* variable_list entries: upper-case name of a key, a further field, an entry
\* without a value, a name that is no key of dict_variables
VarsKnown ==
    << [name |-> Var_PE_VIP, value |-> "old", type |-> "LOCAL"],
       [name |-> Var_Era_Id, value |-> "e0"],
       [name |-> K_ctr_uuid, type |-> "LOCAL"] >>
VarsUnknown ==
    << [name |-> Var_PE_VIP, value |-> "old", type |-> "LOCAL"],
       [name |-> Var_DB_NAME, value |-> "db"],
       [name |-> Var_Era_Id, value |-> "e0"] >>

Resources(vl) == [service_definition_list |-> << [variable_list |-> vl] >>]

OldReference == [kind |-> "project", uuid |-> "OLD", name |-> "oldproj"]

BP_Plain ==
    [metadata |-> [name |-> Name_WebApp, kind |-> "blueprint"],
     spec |-> [name |-> "bp1"],
     status |-> [state |-> "ACTIVE"],
     product_version |-> "3.0",
     api_version |-> "3.0"]
BP_Bound ==
    [metadata |-> [name |-> Name_WebApp, project_reference |-> OldReference],
     spec |-> [name |-> "bp2"],
     api_version |-> "3.0"]
BP_Era ==
    [metadata |-> [name |-> Name_Era, project_reference |-> OldReference],
     spec |-> [name |-> "era", resources |-> Resources(VarsKnown)],
     status |-> [state |-> "ACTIVE"]]
BP_EraUnknown ==
    [metadata |-> [name |-> Name_Era],
     spec |-> [name |-> "era2", resources |-> Resources(VarsUnknown)],
     product_version |-> "3.0"]
BP_eraLower ==
    [metadata |-> [name |-> Name_eraLower],
     spec |-> [name |-> "era3", resources |-> Resources(VarsKnown)],
     product_version |-> "3.0"]
BP_EraNoResources ==
    [metadata |-> [name |-> Name_Era],
     spec |-> [name |-> "era4"]]
BP_NoSpecName ==
    [metadata |-> [name |-> Name_WebApp],
     spec |-> [description |-> "x"],
     status |-> [state |-> "ACTIVE"]]
BP_NoSpec ==
    [metadata |-> [name |-> Name_WebApp],
     status |-> [state |-> "ACTIVE"]]
BP_NoMetadata ==
    [spec |-> [name |-> "bp3"],
     status |-> [state |-> "ACTIVE"]]

Documents ==
    {BP_Plain, BP_Bound, BP_Era, BP_EraUnknown, BP_eraLower, BP_EraNoResources,
     BP_NoSpecName, BP_NoSpec, BP_NoMetadata}

\* what a ".json" file can hold
Texts == {Dumps(d) : d \in Documents} \cup {Garbage}

Directory(t) == [i \in 1..Len(t) |-> [path |-> Path(i), text |-> t[i]]]

Directories ==
    UNION { {Directory(t) : t \in [1..n -> Texts]} : n \in 0..MaxFiles }

\* values of the seven variable options (-i -c -t -l -e -n -v); "" when not given
NoVarArgs == [k \in VariableKeys |-> ""]
VarArgs ==
    { NoVarArgs,
      [NoVarArgs EXCEPT ![K_pe_vip] = "10.0.0.5"],
      [NoVarArgs EXCEPT ![K_pe_vip] = "10.0.0.5", ![K_era_id] = "era7",
                        ![K_ctr_uuid] = "c-9"] }

\* value of -o; "" when not given
ProjectArgs == {"", "Dev", "dev", "Prod"}

Entity(name, uuid) == [status |-> [name |-> name], metadata |-> [uuid |-> uuid]]

\* bodies of the answer to projects/list
Listings ==
    { Dumps([entities |-> << Entity("Dev", "U1"), Entity("Test", "U2") >>]),
      Dumps([entities |-> << Entity("Dev", "U1"), Entity("Test", "U2"),
                             Entity("Dev", "U3") >>]),
      Dumps([entities |-> << >>]),
      Garbage }

\* bodies of the answer to blueprints/import_json
Responses ==
    { Dumps([message_list |-> << [message |-> "name already exists"],
                                 [message |-> "second"] >>]),
      Dumps([message_list |-> << >>]),
      Dumps([message_list |-> << [reason |-> "INVALID"] >>]),
      Dumps([status |-> [state |-> "ACTIVE"]]),
      Garbage }

NoText == [kind |-> "unset"]
NoResult == [unset |-> TRUE]

(***************************************************************************)
(* Transport client (apiclient.ApiClient.get_info): one request, answered  *)
(* by a parsed JSON body or by a deserialization error                     *)
(***************************************************************************)
GetInfoRaises(body) == ~Parseable(body)

GetInfo(body) == Loads(body)

(***************************************************************************)
(* Project resolution, lines 142-145                                       *)
(***************************************************************************)
\* line 143 with the comparison inverted
Matches_NotEqual(entities, name) ==
    { i \in 1..Len(entities) : entities[i].status.name # name }

Matches(entities, name) ==
    { i \in 1..Len(entities) : entities[i].status.name = name }

\* project_found after the scan
ProjectFound(entities, name) == Matches(entities, name) # {}

\* project_uuid after the scan: the scan does not stop at the first match
ProjectUuid(entities, name) ==
    LET m == Matches(entities, name)
        last == CHOOSE i \in m : \A j \in m : j <= i
    IN  entities[last].metadata.uuid

(***************************************************************************)
(* main(), lines 111-157 and 232-236                                       *)
(***************************************************************************)
Init ==
    /\ pc = "check_required"
    /\ error = NoError
    /\ cluster_ip \in {"", "10.0.0.1"}
    /\ username \in {"", "admin"}
    /\ password \in {"", "secret"}
    /\ \E arg \in ProjectArgs : project = GetProject(arg)
    /\ \E args \in VarArgs : dict_variables = GetDictVariables(args)
    /\ files \in Directories
    /\ listing \in Listings
    /\ project_found = "unbound"
    /\ project_uuid = "unbound"
    /\ idx = 0
    /\ raw_json = NoText
    /\ json_result = NoResult
    /\ stdout = << >>
    /\ uploads = << >>
    /\ queries = 0
    /\ reads = 0

Raise(type, line) ==
    /\ pc' = "crashed"
    /\ error' = [type |-> type, line |-> line]

\* lines 123-129
CheckRequired ==
    /\ pc = "check_required"
    /\ IF cluster_ip = "" THEN Raise("Exception", 124)
       ELSE IF username = "" THEN Raise("Exception", 126)
       ELSE IF password = "" THEN Raise("Exception", 128)
       ELSE pc' = "glob" /\ UNCHANGED error
    /\ UNCHANGED <<inputs, project_found, project_uuid, idx, raw_json,
                   json_result, stdout, uploads, queries, reads>>

\* line 134 with >= for >
HasBlueprints_OrNone(blueprint_list) == Len(blueprint_list) >= 0

\* line 134
HasBlueprints(blueprint_list) == Len(blueprint_list) > 0

\* lines 131-134
Glob ==
    /\ pc = "glob"
    /\ pc' = IF HasBlueprints(files) THEN "resolve" ELSE "nothing"
    /\ UNCHANGED <<error, inputs, project_found, project_uuid, idx, raw_json,
                   json_result, stdout, uploads, queries, reads>>

\* lines 138-145
ResolveProject ==
    /\ pc = "resolve"
    /\ IF project # "none"
       THEN /\ queries' = queries + 1
            /\ IF GetInfoRaises(listing)
               THEN /\ Raise("JSONDecodeError", 141)
                    /\ UNCHANGED <<project_found, project_uuid>>
               ELSE LET entities == GetInfo(listing).entities
                    IN  /\ pc' = "check_found"
                        /\ UNCHANGED error
                        /\ IF ProjectFound(entities, project)
                           THEN /\ project_found' = "true"
                                /\ project_uuid' = ProjectUuid(entities, project)
                           ELSE /\ project_found' = "false"
                                /\ UNCHANGED project_uuid
       ELSE /\ pc' = "check_found"
            /\ UNCHANGED <<error, queries, project_found, project_uuid>>
    /\ UNCHANGED <<inputs, idx, raw_json, json_result, stdout, uploads, reads>>

\* lines 148-154
CheckProjectFound ==
    /\ pc = "check_found"
    /\ IF project_found = "unbound"
       THEN Raise("UnboundLocalError", 148) /\ UNCHANGED stdout
       ELSE IF project_found = "true"
       THEN /\ stdout' = Append(stdout, Line("project_exists", "", project))
            /\ pc' = "announce"
            /\ UNCHANGED error
       ELSE /\ stdout' = Append(stdout, Line("project_not_found", "", project))
            /\ pc' = "exited"
            /\ UNCHANGED error
    /\ UNCHANGED <<inputs, project_found, project_uuid, idx, raw_json,
                   json_result, uploads, queries, reads>>

\* line 157
Announce ==
    /\ pc = "announce"
    /\ IF ConcatOk(AnnounceOperands)
       THEN /\ stdout' = Append(stdout, Line("files_found", "", ""))
            /\ pc' = "loop"
            /\ idx' = 1
            /\ UNCHANGED error
       ELSE Raise("TypeError", 157) /\ UNCHANGED <<stdout, idx>>
    /\ UNCHANGED <<inputs, project_found, project_uuid, raw_json, json_result,
                   uploads, queries, reads>>

\* line 233
NothingToImport ==
    /\ pc = "nothing"
    /\ IF ConcatOk(NothingOperands)
       THEN /\ stdout' = Append(stdout, Line("nothing_to_import", "", ""))
            /\ pc' = "finish"
            /\ UNCHANGED error
       ELSE Raise("TypeError", 233) /\ UNCHANGED stdout
    /\ UNCHANGED <<inputs, project_found, project_uuid, idx, raw_json,
                   json_result, uploads, queries, reads>>

\* line 236
Finished ==
    /\ pc = "finish"
    /\ stdout' = Append(stdout, Line("finished", "", ""))
    /\ pc' = "done"
    /\ UNCHANGED <<error, inputs, project_found, project_uuid, idx, raw_json,
                   json_result, uploads, queries, reads>>

(***************************************************************************)
(* The per-file transformation, lines 168-199                              *)
(***************************************************************************)
\* lines 170-172 without the reset of line 170: kind and uuid are written into
\* the reference the document already has
SetProjectReference_Merge(parsed, uuid) ==
    LET old == IF "project_reference" \in DOMAIN parsed.metadata
               THEN parsed.metadata.project_reference
               ELSE [kind |-> "project"]
    IN  [parsed EXCEPT !.metadata =
            Put(@, "project_reference",
                Put(Put(old, "kind", "project"), "uuid", uuid))]

\* lines 170-172
SetProjectReference(parsed, uuid) ==
    [parsed EXCEPT !.metadata =
        Put(@, "project_reference", [kind |-> "project", uuid |-> uuid])]

\* line 175
VariableAware(parsed) == Contains(parsed.metadata.name, EraServerDeployment)

\* line 176: the exception the path lookup raises, "none" when it succeeds
VariableListError(parsed) ==
    IF "spec" \notin DOMAIN parsed THEN "KeyError"
    ELSE IF "resources" \notin DOMAIN parsed.spec THEN "KeyError"
    ELSE IF "service_definition_list" \notin DOMAIN parsed.spec.resources
         THEN "KeyError"
    ELSE IF Len(parsed.spec.resources.service_definition_list) = 0
         THEN "IndexError"
    ELSE IF "variable_list" \notin
                DOMAIN parsed.spec.resources.service_definition_list[1]
         THEN "KeyError"
    ELSE "none"

VariableList(parsed) ==
    parsed.spec.resources.service_definition_list[1].variable_list

\* lines 178-180: the line at which an entry raises KeyError, 0 when it does not
VariableError(var_dict, table) ==
    IF "name" \notin DOMAIN var_dict THEN 178
    ELSE IF Lower(var_dict.name) \notin DOMAIN table THEN 180
    ELSE 0

\* lines 178-181 without the sentinel test of line 180
InjectVariable_NoSentinel(var_dict, table) ==
    Put(var_dict, "value", table[Lower(var_dict.name)])

\* lines 178-181 for an entry that raises nothing
InjectVariable(var_dict, table) ==
    LET variable_name == Lower(var_dict.name)
    IN  IF table[variable_name] # "none"
        THEN Put(var_dict, "value", table[variable_name])
        ELSE var_dict

\* lines 177-181 for a list no entry of which raises
InjectVariables(parsed, table) ==
    [parsed EXCEPT
        !.spec.resources.service_definition_list[1].variable_list =
            [i \in 1..Len(@) |-> InjectVariable(@[i], table)]]

\* lines 188-191 without the second pop
StripExportFields_StatusOnly(pre_process) ==
    IF "status" \in DOMAIN pre_process
    THEN Pop(pre_process, "status") ELSE pre_process

\* lines 188-191
StripExportFields(pre_process) ==
    LET a == IF "status" \in DOMAIN pre_process
             THEN Pop(pre_process, "status") ELSE pre_process
    IN  IF "product_version" \in DOMAIN a THEN Pop(a, "product_version") ELSE a

\* line 199 raises KeyError
NameMissing(doc) ==
    \/ "spec" \notin DOMAIN doc
    \/ "name" \notin DOMAIN doc.spec

(***************************************************************************)
(* The for loop, lines 160-230                                             *)
(***************************************************************************)
\* lines 160-164
ReadFile ==
    /\ pc = "loop"
    /\ idx <= Len(files)
    /\ reads' = reads + 1
    /\ raw_json' = files[idx].text
    /\ pc' = "bind"
    /\ UNCHANGED <<error, inputs, project_found, project_uuid, idx, json_result,
                   stdout, uploads, queries>>

\* line 160, the list is exhausted
LoopExit ==
    /\ pc = "loop"
    /\ idx > Len(files)
    /\ pc' = "finish"
    /\ UNCHANGED <<error, inputs, project_found, project_uuid, idx, raw_json,
                   json_result, stdout, uploads, queries, reads>>

\* lines 168-184
BindProject ==
    /\ pc = "bind"
    /\ IF project = "none"
       THEN pc' = "strip" /\ UNCHANGED <<error, raw_json>>
       ELSE IF ~Parseable(raw_json)
       THEN Raise("JSONDecodeError", 169) /\ UNCHANGED raw_json
       ELSE IF "metadata" \notin DOMAIN Loads(raw_json)
       THEN Raise("KeyError", 170) /\ UNCHANGED raw_json
       ELSE LET parsed == SetProjectReference(Loads(raw_json), project_uuid)
            IN  IF "name" \notin DOMAIN parsed.metadata
                THEN Raise("KeyError", 175) /\ UNCHANGED raw_json
                ELSE IF ~VariableAware(parsed)
                THEN /\ raw_json' = Dumps(parsed)
                     /\ pc' = "strip"
                     /\ UNCHANGED error
                ELSE IF VariableListError(parsed) # "none"
                THEN Raise(VariableListError(parsed), 176) /\ UNCHANGED raw_json
                ELSE LET vl == VariableList(parsed)
                         bad == { i \in 1..Len(vl) :
                                    VariableError(vl[i], dict_variables) # 0 }
                     IN  IF bad # {}
                         THEN LET first == CHOOSE i \in bad :
                                              \A j \in bad : i <= j
                              IN  /\ Raise("KeyError",
                                       VariableError(vl[first], dict_variables))
                                  /\ UNCHANGED raw_json
                         ELSE /\ raw_json' =
                                    Dumps(InjectVariables(parsed, dict_variables))
                              /\ pc' = "strip"
                              /\ UNCHANGED error
    /\ UNCHANGED <<inputs, project_found, project_uuid, idx, json_result,
                   stdout, uploads, queries, reads>>

\* lines 187-194
StripExport ==
    /\ pc = "strip"
    /\ IF ~Parseable(raw_json)
       THEN Raise("JSONDecodeError", 187) /\ UNCHANGED raw_json
       ELSE /\ raw_json' = Dumps(StripExportFields(Loads(raw_json)))
            /\ pc' = "name"
            /\ UNCHANGED error
    /\ UNCHANGED <<inputs, project_found, project_uuid, idx, json_result,
                   stdout, uploads, queries, reads>>

\* lines 198-202
ExtractName ==
    /\ pc = "name"
    /\ IF ~Parseable(raw_json)
       THEN /\ stdout' = Append(stdout,
                           Line("unprocessable", files[idx].path, ""))
            /\ pc' = "exited"
            /\ UNCHANGED error
       ELSE IF NameMissing(Loads(raw_json))
       THEN Raise("KeyError", 199) /\ UNCHANGED stdout
       ELSE pc' = "upload" /\ UNCHANGED <<error, stdout>>
    /\ UNCHANGED <<inputs, project_found, project_uuid, idx, raw_json,
                   json_result, uploads, queries, reads>>

\* lines 206-218
Upload ==
    /\ pc = "upload"
    /\ uploads' = Append(uploads, [file |-> files[idx].path, body |-> raw_json])
    /\ \E body \in Responses :
          IF GetInfoRaises(body)
          THEN /\ stdout' = Append(stdout,
                              Line("no_response", files[idx].path, ""))
               /\ pc' = "exited"
               /\ UNCHANGED json_result
          ELSE /\ json_result' = GetInfo(body)
               /\ pc' = "report"
               /\ UNCHANGED stdout
    /\ UNCHANGED <<error, inputs, project_found, project_uuid, idx, raw_json,
                   queries, reads>>

\* line 225: what json_result['message_list'][0]['message'] does
MessageLookup(result) ==
    IF "message_list" \notin DOMAIN result THEN "KeyError"
    ELSE IF Len(result.message_list) = 0 THEN "IndexError"
    ELSE IF "message" \notin DOMAIN result.message_list[1] THEN "KeyError"
    ELSE "ok"

\* lines 221-230
Report ==
    /\ pc = "report"
    /\ IF MessageLookup(json_result) = "ok"
       THEN /\ stdout' = Append(stdout,
                           Line("server_message", files[idx].path,
                                json_result.message_list[1].message))
            /\ pc' = "loop"
            /\ idx' = idx + 1
            /\ UNCHANGED error
       ELSE IF MessageLookup(json_result) = "KeyError"
       THEN IF ConcatOk(SuccessOperands)
            THEN /\ stdout' = Append(stdout,
                                Line("success", files[idx].path, ""))
                 /\ pc' = "loop"
                 /\ idx' = idx + 1
                 /\ UNCHANGED error
            ELSE Raise("TypeError", 227) /\ UNCHANGED <<stdout, idx>>
       ELSE Raise(MessageLookup(json_result), 225) /\ UNCHANGED <<stdout, idx>>
    /\ UNCHANGED <<inputs, project_found, project_uuid, raw_json, json_result,
                   uploads, queries, reads>>

(***************************************************************************)
(* Specifications                                                          *)
(***************************************************************************)
\* main(): line 157 raises in every run that reaches it, so the for loop is
\* never entered from Init
Next ==
    \/ CheckRequired
    \/ Glob
    \/ ResolveProject
    \/ CheckProjectFound
    \/ Announce
    \/ NothingToImport
    \/ Finished

Spec == Init /\ [][Next]_vars

\* the state at the head of the for loop (line 160): a directory with at
\* least one blueprint file and either no project or a project that the scan
\* of lines 142-145 found
LoopInit ==
    /\ pc = "loop"
    /\ error = NoError
    /\ cluster_ip = "10.0.0.1"
    /\ username = "admin"
    /\ password = "secret"
    /\ \E arg \in ProjectArgs : project = GetProject(arg)
    /\ \E args \in VarArgs : dict_variables = GetDictVariables(args)
    /\ files \in Directories
    /\ HasBlueprints(files)
    /\ listing \in Listings
    /\ IF project = "none"
       THEN /\ project_found = "unbound"
            /\ project_uuid = "unbound"
            /\ queries = 0
            /\ stdout = << Line("files_found", "", "") >>
       ELSE /\ ~GetInfoRaises(listing)
            /\ ProjectFound(GetInfo(listing).entities, project)
            /\ project_found = "true"
            /\ project_uuid = ProjectUuid(GetInfo(listing).entities, project)
            /\ queries = 1
            /\ stdout = << Line("project_exists", "", project),
                           Line("files_found", "", "") >>
    /\ idx = 1
    /\ raw_json = NoText
    /\ json_result = NoResult
    /\ uploads = << >>
    /\ reads = 0

LoopNext ==
    \/ ReadFile
    \/ LoopExit
    \/ BindProject
    \/ StripExport
    \/ ExtractName
    \/ Upload
    \/ Report
    \/ Finished

LoopSpec == LoopInit /\ [][LoopNext]_vars

(***************************************************************************)
(* Properties                                                              *)
(***************************************************************************)
Terminal == pc \in {"done", "crashed", "exited"}

RequiredGiven == cluster_ip # "" /\ username # "" /\ password # ""

\* no listed project carries the requested display name
NoSuchProject ==
    /\ project # "none"
    /\ Parseable(listing)
    /\ \A i \in 1..Len(listing.doc.entities) :
          listing.doc.entities[i].status.name # project

\* the requested project is listed, or none was requested
PastPreconditions ==
    /\ RequiredGiven
    /\ \/ project = "none"
       \/ /\ Parseable(listing)
          /\ \E i \in 1..Len(listing.doc.entities) :
                listing.doc.entities[i].status.name = project

WellFormed(text) ==
    /\ text.kind = "json"
    /\ "metadata" \in DOMAIN text.doc
    /\ "name" \in DOMAIN text.doc.metadata
    /\ "spec" \in DOMAIN text.doc
    /\ "name" \in DOMAIN text.doc.spec

Outcomes == SelectSeq(stdout, LAMBDA l : l.file # "")

\* C1: a run that gets past the preconditions over a non-empty list of
\* well-formed blueprint files uploads every enumerated file exactly once, in
\* enumeration order, prints exactly one outcome per file and reaches the
\* completion summary; without a project no project-list query is issued.
C1_EveryFileImported ==
    ( /\ Terminal
      /\ PastPreconditions
      /\ Len(files) > 0
      /\ \A i \in 1..Len(files) : WellFormed(files[i].text) )
    => /\ pc = "done"
       /\ Len(uploads) = Len(files)
       /\ \A i \in 1..Len(files) : uploads[i].file = files[i].path
       /\ Len(Outcomes) = Len(files)
       /\ \A i \in 1..Len(files) : Outcomes[i].file = files[i].path
       /\ project = "none" => queries = 0

\* C6: when the requested project name equals no listed display name, the
\* run never gets past the project check: no file is read, nothing is
\* uploaded, and a run that found files ends at the "not found" exit.
C6_NotFoundAborts ==
    NoSuchProject
    => /\ reads = 0
       /\ uploads = << >>
       /\ pc \notin {"announce", "loop"}
       /\ (Terminal /\ RequiredGiven /\ Len(files) > 0)
            => /\ pc = "exited"
               /\ stdout = << Line("project_not_found", "", project) >>

C6_Witness ==
    /\ NoSuchProject
    /\ Len(files) > 0
    /\ pc = "exited"
    /\ queries = 1
    /\ stdout = << Line("project_not_found", "", project) >>

\* C7 as stated: with a project requested and zero ".json" files the
\* project-list query is still issued, and an unknown project aborts the run.
C7_ProjectCheckedFirst ==
    (Terminal /\ RequiredGiven /\ project # "none" /\ Len(files) = 0)
    => /\ queries = 1
       /\ NoSuchProject => pc = "exited"

\* C7 amended: the file count is checked before the project: the project-list
\* query is issued only when at least one ".json" file was found, and with
\* zero files the run reports nothing to import and completes whatever
\* project was requested.
C7_FileCountCheckedFirst ==
    /\ queries > 0 => Len(files) > 0
    /\ (Terminal /\ RequiredGiven /\ Len(files) = 0)
         => /\ pc = "done"
            /\ queries = 0
            /\ project_found = "unbound"

C7_Witness ==
    /\ NoSuchProject
    /\ Len(files) = 0
    /\ pc = "done"
    /\ queries = 0

\* C8: with zero ".json" files the run prints exactly one "nothing to
\* import" line, sends nothing to the blueprint-import endpoint and reaches
\* the completion line without an error.
C8_NothingToImport ==
    Len(files) = 0
    => /\ uploads = << >>
       /\ (Terminal /\ RequiredGiven)
            => /\ pc = "done"
               /\ error = NoError
               /\ stdout = << Line("nothing_to_import", "", ""),
                              Line("finished", "", "") >>

C8_Witness ==
    /\ Len(files) = 0
    /\ pc = "done"
    /\ project = "none"
    /\ stdout = << Line("nothing_to_import", "", ""), Line("finished", "", "") >>

\* the k-th upload is of the k-th file: a file that is not uploaded ends the run
Original(k) == files[k].text.doc

Uploaded(k) == uploads[k].body.doc

WithoutKey(d, k) == [j \in (DOMAIN d) \ {k} |-> d[j]]

\* C2: with or without a project, no uploaded document has a top-level
\* "status" or "product_version" key, and every other top-level key of the
\* file's document is uploaded with its value (metadata up to the project
\* reference and spec up to the injected variable values when a project is
\* bound).
C2_ExportFieldsRemoved ==
    \A k \in 1..Len(uploads) :
        /\ uploads[k].file = files[k].path
        /\ uploads[k].body.kind = "json"
        /\ "status" \notin DOMAIN Uploaded(k)
        /\ "product_version" \notin DOMAIN Uploaded(k)
        /\ DOMAIN Uploaded(k) = (DOMAIN Original(k)) \ {"status", "product_version"}
        /\ \A key \in DOMAIN Uploaded(k) :
              (project = "none" \/ key \notin {"metadata", "spec"})
                 => Uploaded(k)[key] = Original(k)[key]
        /\ project # "none"
             => /\ WithoutKey(Uploaded(k).metadata, "project_reference")
                     = WithoutKey(Original(k).metadata, "project_reference")
                /\ DOMAIN Uploaded(k).spec = DOMAIN Original(k).spec

C2_Witness ==
    /\ project # "none"
    /\ Len(uploads) = 2
    /\ files[1].text = Dumps(BP_Plain)
    /\ files[2].text = Dumps(BP_eraLower)
    /\ DOMAIN Uploaded(1) = {"metadata", "spec", "api_version"}
    /\ DOMAIN Uploaded(2) = {"metadata", "spec"}

\* C3: when a project was resolved, metadata.project_reference of every
\* uploaded document is exactly {kind: "project", uuid: <resolved id>}, no key
\* of an earlier reference survives, and every file of the run carries the
\* same uuid, that of a listed project with the requested name.
C3_ProjectReferenceReplaced ==
    project # "none"
    => /\ \E i \in 1..Len(listing.doc.entities) :
             /\ listing.doc.entities[i].status.name = project
             /\ listing.doc.entities[i].metadata.uuid = project_uuid
       /\ \A k \in 1..Len(uploads) :
             /\ DOMAIN Uploaded(k).metadata.project_reference = {"kind", "uuid"}
             /\ Uploaded(k).metadata.project_reference.kind = "project"
             /\ Uploaded(k).metadata.project_reference.uuid = project_uuid
       /\ (pc = "strip" /\ raw_json.kind = "json")
             => raw_json.doc.metadata.project_reference
                   = [kind |-> "project", uuid |-> project_uuid]

C3_Witness ==
    /\ project # "none"
    /\ Len(uploads) = 2
    /\ Original(1) = BP_Bound
    /\ Original(2) = BP_Plain
    /\ Uploaded(1).metadata.project_reference = [kind |-> "project", uuid |-> "U3"]
    /\ Uploaded(2).metadata.project_reference = [kind |-> "project", uuid |-> "U3"]

\* the variable list of a document that has one
VarListOf(d) == d.spec.resources.service_definition_list[1].variable_list

\* variable injection took d to e under the C4 frame condition
OnlyValuesInjected(d, e) ==
    /\ DOMAIN e.spec = DOMAIN d.spec
    /\ e.spec.name = d.spec.name
    /\ DOMAIN e.spec.resources = DOMAIN d.spec.resources
    /\ Len(e.spec.resources.service_definition_list)
         = Len(d.spec.resources.service_definition_list)
    /\ DOMAIN e.spec.resources.service_definition_list[1]
         = DOMAIN d.spec.resources.service_definition_list[1]
    /\ Len(VarListOf(e)) = Len(VarListOf(d))
    /\ \A i \in 1..Len(VarListOf(d)) :
          LET old == VarListOf(d)[i]
              new == VarListOf(e)[i]
              key == Lower(old.name)
              injected == key \in VariableKeys /\ dict_variables[key] # "none"
          IN  /\ \A f \in (DOMAIN old) \ {"value"} :
                    f \in DOMAIN new /\ new[f] = old[f]
              /\ injected => /\ DOMAIN new = (DOMAIN old) \cup {"value"}
                             /\ new.value = dict_variables[key]
              /\ ~injected => new = old

\* d as it stands after lines 168-184 is e
FrameHolds(d, e) ==
    IF project # "none" /\ Contains(d.metadata.name, EraServerDeployment)
    THEN OnlyValuesInjected(d, e)
    ELSE "spec" \in DOMAIN d => ("spec" \in DOMAIN e /\ e.spec = d.spec)

\* C4: variable injection changes nothing but the value field of the entries
\* whose lower-cased name has a non-sentinel value in dict_variables; entries
\* with the sentinel "none" keep (or keep lacking) their value, names and
\* other fields are unchanged, and without a project, or when metadata.name
\* does not contain "EraServerDeployment", the spec is not changed at all.
C4_OnlyValuesInjected ==
    /\ \A k \in 1..Len(uploads) : FrameHolds(Original(k), Uploaded(k))
    /\ (pc = "strip" /\ raw_json.kind = "json")
          => FrameHolds(Original(idx), raw_json.doc)

C4_Witness ==
    /\ project # "none"
    /\ Len(uploads) = 2
    /\ Original(1) = BP_Era
    /\ Original(2) = BP_eraLower
    /\ dict_variables[K_pe_vip] = "10.0.0.5"
    /\ dict_variables[K_era_id] = "none"
    /\ VarListOf(Uploaded(1)) =
          << [name |-> Var_PE_VIP, value |-> "10.0.0.5", type |-> "LOCAL"],
             [name |-> Var_Era_Id, value |-> "e0"],
             [name |-> K_ctr_uuid, type |-> "LOCAL"] >>
    /\ VarListOf(Uploaded(2)) = VarsKnown

Malformed(text) ==
    \/ text.kind # "json"
    \/ "spec" \notin DOMAIN text.doc
    \/ "name" \notin DOMAIN text.doc.spec

====
